---- MODULE Spec2Model ----
(***************************************************************************)
(* ai-concierge (src-tauri): the two Tauri commands `generate` and         *)
(* `generate_stream` of lib.rs, the decode loops LlmEngine::generate and   *)
(* LlmEngine::generate_stream of llm.rs, and the remote pass-through of    *)
(* ollama.rs, as one state machine over a set of command invocations that  *)
(* share AppState.llm (a Mutex<Option<LlmEngine>>).                        *)
(*                                                                         *)
(* Option<T> is a sequence of length 0 (None) or 1 (Some).  A text is the  *)
(* sequence of its UTF-8 bytes; every byte carries the character it        *)
(* belongs to, so that char boundaries (str slicing) are decidable.        *)
(***************************************************************************)
EXTENDS Integers, Sequences, FiniteSets, TLC

\* ------------------------------------------------------------------ bounds
\* Command invocations that may be in flight at the same time.
NumCalls == 2
\* Largest max_tokens a caller passes in the decode-run specification.
MaxTokens == 3
\* Largest max_tokens a caller passes in the application specification.
AppMaxTokens == 1
\* Largest number of characters of a prompt in the decode-run specification.
MaxPromptLen == 2
\* Largest number of lines in a remote response body.
MaxLines == 2
\* Largest number of records in the corpus search_events is given.
MaxEvents == 3

Calls == 1..NumCalls

None == <<>>
Some(x) == <<x>>
IsSome(o) == Len(o) = 1
Unwrap(o) == o[1]

\* --------------------------------------------------------------- tokenizer
\* The vocabulary: one special token (the end marker EOS_TOKEN), one ordinary
\* two-byte token and the two byte-fallback tokens of that same character.
EOS_TOKEN == "</s>"
TokE == "e_acute"
TokC3 == "<0xC3>"
TokA9 == "<0xA9>"
Vocab == {EOS_TOKEN, TokE, TokC3, TokA9}
SpecialTokens == {EOS_TOKEN, "<s>"}
ByteTokens == {TokC3, TokA9}

\* UTF-8 bytes: "e1","e2" are the two bytes of U+00E9, "r1".."r3" the three
\* bytes of U+FFFD (the replacement character).
TextE == <<"e1", "e2">>
TextRepl == <<"r1", "r2", "r3">>
CharStarts == {"e1", "r1"}

\* str::is_char_boundary(k) for a byte offset k.
IsCharBoundary(text, k) ==
    \/ k = 0
    \/ k = Len(text)
    \/ k < Len(text) /\ text[k + 1] \in CharStarts

RECURSIVE Repeat(_, _)
Repeat(s, n) == IF n = 0 THEN <<>> ELSE s \o Repeat(s, n - 1)

\* String::from_utf8 on a run of byte-fallback tokens: the run is valid exactly
\* when it is a sequence of (0xC3, 0xA9) pairs.
ValidUtf8(bytes) ==
    /\ Len(bytes) % 2 = 0
    /\ \A i \in 1..Len(bytes) : bytes[i] = (IF i % 2 = 1 THEN TokC3 ELSE TokA9)

\* ByteFallback: a valid run decodes to its characters, an invalid run to one
\* replacement character per byte.
FlushBytes(bytes) ==
    IF Len(bytes) = 0 THEN <<>>
    ELSE IF ValidUtf8(bytes) THEN Repeat(TextE, Len(bytes) \div 2)
    ELSE Repeat(TextRepl, Len(bytes))

RECURSIVE DecodeChain(_, _)
DecodeChain(toks, pending) ==
    IF Len(toks) = 0 THEN FlushBytes(pending)
    ELSE IF Head(toks) \in ByteTokens
         THEN DecodeChain(Tail(toks), Append(pending, Head(toks)))
         ELSE FlushBytes(pending) \o TextE \o DecodeChain(Tail(toks), <<>>)

\* tokenizer.decode(ids, skip_special_tokens = true), when it succeeds.
Decode(ids) ==
    DecodeChain(SelectSeq(ids, LAMBDA t : t \notin SpecialTokens), <<>>)

\* tokenizer.encode(prompt, true).get_ids(): the start marker the tokenizer
\* adds and an id for every character or template piece of the prompt.
Encode(prompt) == <<"<s>">> \o Repeat(<<TokE>>, Len(prompt))

\* -------------------------------------------------------------- retrieval
\* A string is the sequence of its characters; "E" is a two-byte character
\* (U+00E9), the others are ASCII.
\* str::len: the length in bytes.
StrLen(str) == Len(str) + Len(SelectSeq(str, LAMBDA ch : ch = "E"))

\* str::to_lowercase
ToLowercase(str) ==
    [i \in 1..Len(str) |-> IF str[i] = "A" THEN "a" ELSE IF str[i] = "B" THEN "b" ELSE str[i]]

\* str::split_whitespace: the maximal runs of characters that are not spaces.
RECURSIVE SplitFrom(_, _)
SplitFrom(str, word) ==
    IF str = <<>> THEN (IF word = <<>> THEN <<>> ELSE <<word>>)
    ELSE IF Head(str) = " "
         THEN (IF word = <<>> THEN <<>> ELSE <<word>>) \o SplitFrom(Tail(str), <<>>)
         ELSE SplitFrom(Tail(str), Append(word, Head(str)))
SplitWhitespace(str) == SplitFrom(str, <<>>)

\* str::contains
Contains(text, w) ==
    \E i \in 0..(Len(text) - Len(w)) : SubSeq(text, i + 1, i + Len(w)) = w

\* format!("{} {}", event.title, event.description).to_lowercase()
EventSearchableText(event) == ToLowercase(event.title \o <<" ">> \o event.description)

\* UsableWord with >= for >.
UsableWord_Any(w) == StrLen(w) >= 1

\* .filter(|s| s.len() > 1): len is the length in bytes.
UsableWord(w) == StrLen(w) > 1

\* query_lower.split_whitespace().filter(|s| s.len() > 1).collect()
QueryWords(query) == SelectSeq(SplitWhitespace(ToLowercase(query)), UsableWord)

\* query_words.iter().filter(|w| text.contains(*w)).count()
Matches(event, query_words) ==
    Cardinality({i \in 1..Len(query_words) :
                    Contains(EventSearchableText(event), query_words[i])})

\* Iterator::take
Take(seq, limit) == SubSeq(seq, 1, IF limit < Len(seq) THEN limit ELSE Len(seq))

\* InsertByScore going in front of the entries of equal score.
RECURSIVE InsertByScore_Unstable(_, _)
InsertByScore_Unstable(sorted, x) ==
    IF sorted = <<>> THEN <<x>>
    ELSE IF Head(sorted).matches > x.matches
         THEN <<Head(sorted)>> \o InsertByScore_Unstable(Tail(sorted), x)
         ELSE <<x>> \o sorted

\* The place of x in a sequence sorted by b.0.cmp(&a.0): behind every entry
\* of a greater or equal score (the sort is stable).
RECURSIVE InsertByScore(_, _)
InsertByScore(sorted, x) ==
    IF sorted = <<>> THEN <<x>>
    ELSE IF Head(sorted).matches >= x.matches
         THEN <<Head(sorted)>> \o InsertByScore(Tail(sorted), x)
         ELSE <<x>> \o sorted

\* scored.sort_by(|a, b| b.0.cmp(&a.0))
RECURSIVE SortByScore(_)
SortByScore(scored) ==
    IF scored = <<>> THEN <<>>
    ELSE InsertByScore(SortByScore(SubSeq(scored, 1, Len(scored) - 1)),
                       scored[Len(scored)])

\* rag::search_events: the records it returns, as references into events
\* (their indices).
SearchEvents(events, query, limit) ==
    LET query_words == QueryWords(query) IN
    IF query_words = <<>>
    THEN Take([i \in 1..Len(events) |-> i], limit)
    ELSE LET all == [i \in 1..Len(events) |->
                        [matches |-> Matches(events[i], query_words), event |-> i]]
             scored == SelectSeq(all, LAMBDA x : x.matches > 0)
             sorted == Take(SortByScore(scored), limit)
         IN [j \in 1..Len(sorted) |-> sorted[j].event]

\* The events files: a path that does not exist, a file that cannot be read, a
\* file that is not a JSON list of events, and a file of two events.
EventsPaths == {"missing.json", "unreadable.json", "malformed.json", "events.json"}
PathExists(path) == path # "missing.json"

\* rag::load_events
LoadEvents(path) ==
    IF path = "events.json"
    THEN [ok |-> TRUE, err |-> "",
          events |-> <<[title |-> <<"a", "b">>, date |-> <<"d">>, description |-> <<>>],
                       [title |-> <<"a">>, date |-> <<"d">>, description |-> <<"b">>]>>]
    ELSE [ok |-> FALSE, events |-> <<>>,
          err |-> IF path = "malformed.json" THEN "Invalid events JSON"
                  ELSE "Failed to read events file"]

\* The lines joined by "\n".
RECURSIVE Join(_)
Join(strs) ==
    IF strs = <<>> THEN <<>>
    ELSE IF Len(strs) = 1 THEN strs[1]
    ELSE strs[1] \o <<"\n">> \o Join(Tail(strs))

\* rag::format_events_for_prompt
FormatEventsForPrompt(events) ==
    IF events = <<>> THEN <<"(No relevant events found.)">>
    ELSE Join([i \in 1..Len(events) |->
                 <<"- ">> \o events[i].title \o <<" (">> \o events[i].date \o <<") ">>
                         \o events[i].description])

\* rag::retrieve_context
RetrieveContext(path, query, limit) ==
    LET loaded == LoadEvents(path) IN
    IF ~loaded.ok THEN [ok |-> FALSE, err |-> loaded.err, context |-> <<>>]
    ELSE LET relevant == SearchEvents(loaded.events, query, limit)
         IN [ok |-> TRUE, err |-> "",
             context |-> FormatEventsForPrompt(
                            [j \in 1..Len(relevant) |-> loaded.events[relevant[j]]])]

\* let date_line = current_date.map(..).unwrap_or_default()
DateLine(current_date) ==
    IF IsSome(current_date)
    THEN <<"Today's date: ">> \o Unwrap(current_date) \o <<".\n">>
    ELSE <<>>

OnlyReply == "Only output the assistant reply. Do not generate any user message."

\* The prompt with the events in its system block.
WithContext(date_line, context, prompt) ==
    <<"<|system|>\n">> \o date_line \o <<"Relevant events:\n">> \o context
        \o <<"\n", OnlyReply, "</s>\n<|user|>\n">> \o prompt
        \o <<"</s>\n<|assistant|>\n">>

\* The prompt without events: with a system block only for the date.
RawPrompt(date_line, prompt) ==
    IF date_line = <<>>
    THEN <<"<|user|>\n">> \o prompt \o <<"</s>\n<|assistant|>\n">>
    ELSE <<"<|system|>\n">> \o date_line \o <<OnlyReply, "</s>\n<|user|>\n">> \o prompt
             \o <<"</s>\n<|assistant|>\n">>

\* BuildPromptWithRag putting an empty list of events into the prompt when the
\* retrieval fails.
BuildPromptWithRag_EmptyContext(prompt, events_path, current_date) ==
    IF IsSome(events_path)
    THEN LET r == RetrieveContext(Unwrap(events_path), prompt, 5)
         IN WithContext(DateLine(current_date),
                        IF PathExists(Unwrap(events_path)) /\ r.ok
                        THEN r.context ELSE FormatEventsForPrompt(<<>>),
                        prompt)
    ELSE RawPrompt(DateLine(current_date), prompt)

\* lib.rs: build_prompt_with_rag
BuildPromptWithRag(prompt, events_path, current_date) ==
    IF /\ IsSome(events_path)
       /\ PathExists(Unwrap(events_path))
       /\ RetrieveContext(Unwrap(events_path), prompt, 5).ok
    THEN WithContext(DateLine(current_date),
                     RetrieveContext(Unwrap(events_path), prompt, 5).context, prompt)
    ELSE RawPrompt(DateLine(current_date), prompt)

\* ------------------------------------------------------------------ engine
\* What llm::load builds from a model directory: config.eos_token_id and
\* the tokenizer's id for EOS_TOKEN.
ModelDirs == {"multi", "tok_only", "no_eos"}
Single(id) == [kind |-> "Single", ids |-> {id}]
Multiple(ids) == [kind |-> "Multiple", ids |-> ids]
ConfigEos(dir) ==
    IF dir = "multi" THEN Some(Multiple({EOS_TOKEN, TokE})) ELSE None
TokenToId(dir, tok) ==
    IF dir = "no_eos" THEN None ELSE Some(tok)

\* eos_token_id: config.eos_token_id.or_else(token_to_id(EOS_TOKEN).map(Single))
ResolveEos(dir) ==
    IF IsSome(ConfigEos(dir)) THEN ConfigEos(dir)
    ELSE IF IsSome(TokenToId(dir, EOS_TOKEN))
         THEN Some(Single(Unwrap(TokenToId(dir, EOS_TOKEN))))
         ELSE None

\* IsStop with the arm for a set of ids left out.
IsStop_SingleOnly(eos, next_token) ==
    /\ IsSome(eos)
    /\ Unwrap(eos).kind = "Single" /\ next_token \in Unwrap(eos).ids

\* IsStop falling back to the literal end marker when no stop id is resolved.
IsStop_MarkerFallback(eos, next_token) ==
    IF IsSome(eos) THEN next_token \in Unwrap(eos).ids ELSE next_token = EOS_TOKEN

\* The match on eos_token_id after a token is pushed.
IsStop(eos, next_token) ==
    /\ IsSome(eos)
    /\ \/ Unwrap(eos).kind = "Single" /\ next_token \in Unwrap(eos).ids
       \/ Unwrap(eos).kind = "Multiple" /\ next_token \in Unwrap(eos).ids


\* ------------------------------------------------------------------- state
VARIABLES
    pc,          \* per invocation: where the command is
    cmd,         \* per invocation: "generate" or "generate_stream"
    run,         \* per invocation: the locals of the decode run
    res,         \* per invocation: Option of what the command returned
    emitted,     \* per invocation: the fragments handed to emit, in order
    delivery,    \* per invocation: for each of them, whether window.emit returned Ok
    fwdlog,      \* per invocation: the forward calls made, in order
    raised,      \* per invocation: Option of the error the run raised
    llm,         \* AppState.llm: Option of the model dir the engine was loaded from
    lockHolder,  \* the invocation holding the AppState.llm mutex, 0 when free
    poisoned,    \* the mutex's poison flag
    loads,       \* number of times llm::load has returned Ok
    oracle,      \* the tokens the (deterministic) model and sampler have produced
    lastBatch,   \* Option of the last text LlmEngine::generate returned
    rem,         \* per invocation: the worker thread and channel of the remote path
    args,        \* per invocation: the ollama_url and ollama_model it was given
    search       \* a call of rag::search_events: its arguments and what it returned

vars == <<pc, cmd, run, res, emitted, delivery, fwdlog, raised, llm, lockHolder, poisoned,
          loads, oracle, lastBatch, rem, args, search>>

\* worker: "none" (not spawned), "request", "lines" or "done"; nlines: the
\* number of lines of the response body; lines: the lines the loop has taken so
\* far; lineno: their number; queue: the messages sent and not yet received;
\* result: Option of what stream_generate returned.
NoRemote == [worker |-> "none", nlines |-> 0, lines |-> <<>>, lineno |-> 0,
             queue |-> <<>>, result |-> None]
NoArgs == [prompt |-> <<>>, events_path |-> None, current_date |-> None,
           prompt_to_use |-> <<>>, ollama_url |-> None, ollama_model |-> None]
NoSearch == [events |-> <<>>, query |-> <<>>, limit |-> 0, out |-> None]

Temperatures == {0, 1}

\* let seed = 299792458u64
Seed == 299792458

\* sampler: the seed of the LogitsProcessor and the number of samples drawn.
NoRun ==
    [key |-> <<>>, max_tokens |-> 0, tokens |-> <<>>, prompt_len |-> 0,
     use_kv_cache |-> TRUE, cache |-> <<>>, sampler |-> [seed |-> Seed, draws |-> 0],
     eos |-> None, index_pos |-> 0, last_emitted_len |-> 0, i |-> 0]

Ok(text) == [ok |-> TRUE, text |-> text, err |-> ""]
Err(e) == [ok |-> FALSE, text |-> <<>>, err |-> e]

Init ==
    /\ pc = [c \in Calls |-> "idle"]
    /\ cmd = [c \in Calls |-> "none"]
    /\ run = [c \in Calls |-> NoRun]
    /\ res = [c \in Calls |-> None]
    /\ emitted = [c \in Calls |-> <<>>]
    /\ delivery = [c \in Calls |-> <<>>]
    /\ fwdlog = [c \in Calls |-> <<>>]
    /\ raised = [c \in Calls |-> None]
    /\ llm = None
    /\ lockHolder = 0
    /\ poisoned = FALSE
    /\ loads = 0
    /\ oracle = [key |-> <<>>, toks |-> <<>>]
    /\ lastBatch = None
    /\ rem = [c \in Calls |-> NoRemote]
    /\ args = [c \in Calls |-> NoArgs]
    /\ search = NoSearch

\* ------------------------------------------------------- the decode run
SaturatingSub(a, b) == IF a >= b THEN a - b ELSE 0

\* Window of a loop that scans the whole sequence again in every step.
Window_Full(r) == [size |-> Len(r.tokens), index |-> 0]

\* (context_size, context_index) of a step.
Window(r) ==
    IF r.use_kv_cache /\ Len(r.tokens) > r.prompt_len
    THEN [size |-> 1, index |-> r.index_pos]
    ELSE [size |-> Len(r.tokens), index |-> 0]

\* ctxt = &tokens[tokens.len().saturating_sub(context_size)..]
Ctxt(r) ==
    SubSeq(r.tokens, SaturatingSub(Len(r.tokens), Window(r).size) + 1, Len(r.tokens))

\* model.forward(input, context_index, cache): with the kv cache in use the keys
\* and values of the window are concatenated to the cached ones.
Forward(cache, input, context_index) == cache \o input

\* NextIndexPos advancing by one token whatever the window was.
NextIndexPos_ByOne(r) == r.index_pos + 1

\* index_pos += ctxt.len()
NextIndexPos(r) == r.index_pos + Len(Ctxt(r))

\* LoopRuns with an inclusive range, 0..=max_tokens.
LoopRuns_Inclusive(i, max_tokens) == i <= max_tokens

\* for _ in 0..max_tokens: whether another iteration starts.
LoopRuns(i, max_tokens) == i < max_tokens

\* One iteration up to tokens.push(next_token).
AfterPush(r, next_token) ==
    [r EXCEPT !.cache = Forward(r.cache, Ctxt(r), Window(r).index),
              !.index_pos = NextIndexPos(r),
              !.sampler.draws = @ + 1,
              !.tokens = Append(r.tokens, next_token),
              !.i = r.i + 1]

\* tokens[prompt_len..]
GeneratedIds(r) == SubSeq(r.tokens, r.prompt_len + 1, Len(r.tokens))

\* The errors a run can raise before its first step, and in a step before push.
InitErrors == {"Encode error", "Cache creation failed"}
StepErrors == {"Tensor creation failed", "Unsqueeze failed", "Forward failed",
               "Squeeze failed", "Repeat penalty failed", "Sample failed"}

\* What the model has attended to when it gives the logits of a step: the
\* cached keys and values and the window.
Attended(r) == Forward(r.cache, Ctxt(r), Window(r).index)

\* The step repeats one the oracle has: the same prompt and sampling mode, a
\* sampler of the same seed that has drawn as many samples, the same tokens
\* attended to and the same tokens under the repeat penalty.
Repeats(r, draws) ==
    /\ oracle.key = r.key
    /\ r.sampler = [seed |-> Seed, draws |-> draws]
    /\ draws <= Len(oracle.toks)
    /\ Attended(r) = SubSeq(r.tokens, 1, r.prompt_len) \o SubSeq(oracle.toks, 1, draws)
    /\ r.tokens = Attended(r)

\* LogitsProcessor::sample on the logits of this step.  Seed, prompt, sampling
\* mode and model fix the token of every step: the token once produced by a
\* step is produced again by every step that repeats it.
SampleSet(r) ==
    IF r.sampler.draws < Len(oracle.toks) /\ Repeats(r, r.sampler.draws)
    THEN {oracle.toks[r.sampler.draws + 1]}
    ELSE Vocab

OracleAfter(r, tok) ==
    IF r.sampler.draws = Len(oracle.toks) /\ Repeats(r, r.sampler.draws)
    THEN [oracle EXCEPT !.toks = Append(@, tok)]
    ELSE oracle

\* NewRun with a sampler that lives in the engine and goes on from the samples
\* earlier runs have drawn.
NewRun_SharedSampler(p, k, t) ==
    [key |-> <<p, IF t <= 0 THEN "ArgMax" ELSE "All">>,
     max_tokens |-> k, tokens |-> Encode(p), prompt_len |-> Len(Encode(p)),
     use_kv_cache |-> TRUE, cache |-> <<>>,
     sampler |-> [seed |-> Seed, draws |-> Len(oracle.toks)],
     eos |-> ResolveEos(Unwrap(llm)),
     index_pos |-> 0, last_emitted_len |-> 0, i |-> 0]

\* The locals of a run after tokenization, Cache::new, from_sampling and the
\* resolution of eos_token_id.
NewRun(p, k, t) ==
    [key |-> <<p, IF t <= 0 THEN "ArgMax" ELSE "All">>,
     max_tokens |-> k, tokens |-> Encode(p), prompt_len |-> Len(Encode(p)),
     use_kv_cache |-> TRUE, cache |-> <<>>, sampler |-> [seed |-> Seed, draws |-> 0],
     eos |-> ResolveEos(Unwrap(llm)),
     index_pos |-> 0, last_emitted_len |-> 0, i |-> 0]

\* A run with another key starts another function of the model.
OracleAtStart(r) ==
    IF oracle.key = r.key THEN oracle ELSE [key |-> r.key, toks |-> <<>>]
BatchAtStart(r) == IF oracle.key = r.key THEN lastBatch ELSE None

\* ----------------------------------------------------------- the mutex
\* LockFree of a lock that never blocks.
LockFree_Never == TRUE

LockFree == lockHolder = 0
Release(c) == IF lockHolder = c THEN 0 ELSE lockHolder

\* The command returns Err(e): `?` on an LlmError or on a load error; the
\* guard, if held, is dropped.
ReturnErr(c, e) ==
    /\ pc' = [pc EXCEPT ![c] = "returned"]
    /\ res' = [res EXCEPT ![c] = Some(Err(e))]
    /\ lockHolder' = Release(c)

\* The locals of the run are dropped when the call is over.
DropRun(c) ==
    /\ run' = [run EXCEPT ![c] = NoRun]
    /\ fwdlog' = [fwdlog EXCEPT ![c] = <<>>]

\* RunFails with the error swallowed: the run goes on from where it was.
RunFails_Swallowed(c, e) ==
    /\ raised' = [raised EXCEPT ![c] = Some(e)]
    /\ UNCHANGED <<pc, res, lockHolder, run, fwdlog>>

\* A step of the run raised e: the error is the run's and the command's result.
RunFails(c, e) ==
    /\ raised' = [raised EXCEPT ![c] = Some(e)]
    /\ ReturnErr(c, e)
    /\ DropRun(c)

\* ------------------------------------------------------------ commands
\* A command is invoked (on a free slot, or on the slot of a call that is over)
\* and builds prompt_to_use from its prompt, events_path and current_date.
Invoke(c, inputs) ==
    /\ pc[c] \in {"idle", "returned", "panicked"}
    /\ \E k \in {"generate", "generate_stream"} :
          /\ cmd' = [cmd EXCEPT ![c] = k]
          /\ pc' = [pc EXCEPT ![c] = IF k = "generate" THEN "gen_lock" ELSE "str_route"]
    /\ run' = [run EXCEPT ![c] = NoRun]
    /\ res' = [res EXCEPT ![c] = None]
    /\ emitted' = [emitted EXCEPT ![c] = <<>>]
    /\ delivery' = [delivery EXCEPT ![c] = <<>>]
    /\ fwdlog' = [fwdlog EXCEPT ![c] = <<>>]
    /\ raised' = [raised EXCEPT ![c] = None]
    /\ rem' = [rem EXCEPT ![c] = NoRemote]
    /\ \E prompt \in inputs.prompts, events_path \in inputs.events_paths,
          current_date \in inputs.dates :
          args' = [args EXCEPT ![c] =
                     [NoArgs EXCEPT !.prompt = prompt, !.events_path = events_path,
                                    !.current_date = current_date,
                                    !.prompt_to_use =
                                        BuildPromptWithRag(prompt, events_path,
                                                           current_date)]]
    /\ UNCHANGED <<llm, lockHolder, poisoned, loads, oracle, lastBatch, search>>

\* Lock with the guard a temporary: it is dropped at the end of the statement
\* and the command goes on without the mutex.
Lock_Temporary(c, next) ==
    /\ LockFree
    /\ IF poisoned
       THEN /\ ReturnErr(c, "poisoned lock: another task failed inside")
            /\ UNCHANGED <<llm, loads>>
       ELSE /\ pc' = [pc EXCEPT ![c] = next]
            /\ UNCHANGED <<res, lockHolder, llm, loads>>
    /\ UNCHANGED <<cmd, run, emitted, delivery, fwdlog, raised, poisoned, oracle, lastBatch>>

\* state.llm.lock().map_err(|e| e.to_string())?: a poisoned mutex gives Err, and
\* the guard inside the error is dropped with it.
Lock(c, next) ==
    /\ LockFree
    /\ IF poisoned
       THEN /\ ReturnErr(c, "poisoned lock: another task failed inside")
            /\ UNCHANGED <<llm, loads>>
       ELSE /\ lockHolder' = c
            /\ pc' = [pc EXCEPT ![c] = next]
            /\ UNCHANGED <<res, llm, loads>>
    /\ UNCHANGED <<cmd, run, emitted, delivery, fwdlog, raised, poisoned, oracle, lastBatch>>

\* NeedsLoad without the test: every call loads.
NeedsLoad_Always(guard) == TRUE

\* if guard.is_none()
NeedsLoad(guard) == ~IsSome(guard)

\* if guard.is_none() { let engine = llm::load(&path)?; *guard = Some(engine); }
LoadIfNone(c, next) ==
    /\ IF NeedsLoad(llm)
       THEN \E dir \in ModelDirs, loaded \in BOOLEAN :
               IF loaded
               THEN /\ llm' = Some(dir)
                    /\ loads' = loads + 1
                    /\ pc' = [pc EXCEPT ![c] = next]
                    /\ UNCHANGED <<res, lockHolder>>
               ELSE /\ ReturnErr(c, "Failed to load model")
                    /\ UNCHANGED <<llm, loads>>
       ELSE /\ pc' = [pc EXCEPT ![c] = next]
            /\ UNCHANGED <<res, lockHolder, llm, loads>>
    /\ UNCHANGED <<cmd, run, emitted, delivery, fwdlog, raised, poisoned, oracle, lastBatch>>

\* The prologue of a run: guard.as_ref().ok_or("Model not loaded")?, then
\* encode, Cache::new, LogitsProcessor::from_sampling, eos_token_id, index_pos.
RunInit(c, inputs, loop, after) ==
    IF ~IsSome(llm)
    THEN /\ ReturnErr(c, "Model not loaded")
         /\ UNCHANGED <<cmd, run, emitted, delivery, fwdlog, raised, llm, poisoned, loads,
                        oracle, lastBatch>>
    ELSE \E k \in inputs.budgets, t \in inputs.temperatures,
            o \in {"ok"} \cup InitErrors :
            LET new == NewRun(args[c].prompt_to_use, k, t) IN
            IF o = "ok"
            THEN /\ run' = [run EXCEPT ![c] = new]
                 /\ oracle' = OracleAtStart(new)
                 /\ lastBatch' = BatchAtStart(new)
                 /\ pc' = [pc EXCEPT ![c] = IF LoopRuns(0, k) THEN loop ELSE after]
                 /\ UNCHANGED <<cmd, res, emitted, delivery, fwdlog, raised, llm, lockHolder,
                                poisoned, loads>>
            ELSE /\ RunFails(c, o)
                 /\ UNCHANGED <<cmd, emitted, delivery, llm, poisoned, loads, oracle, lastBatch>>

\* ------------------------------------------------------ command generate
\* lib.rs: let mut guard = state.llm.lock()...
GenLock(c) == pc[c] = "gen_lock" /\ Lock(c, "gen_load") /\ UNCHANGED <<rem, args, search>>

GenLoad(c) == pc[c] = "gen_load" /\ LoadIfNone(c, "g_init") /\ UNCHANGED <<rem, args, search>>

\* lib.rs: engine.generate(&prompt_to_use, max_tokens, temperature, seed), up to
\* the first iteration of the loop.
GenerateInit(c, inputs) ==
    pc[c] = "g_init" /\ RunInit(c, inputs, "g_loop", "g_final") /\ UNCHANGED <<rem, args, search>>

\* The record of a forward call: its input, the length of it and its position.
ForwardCall(r) == [input |-> Ctxt(r), n |-> Len(Ctxt(r)), pos |-> Window(r).index]

\* One iteration of the loop of LlmEngine::generate.
GenerateStep(c) ==
    /\ pc[c] = "g_loop"
    /\ UNCHANGED <<rem, args, search>>
    /\ LET r == run[c] IN
       \E o \in {"ok"} \cup StepErrors :
          IF o = "ok"
          THEN \E tok \in SampleSet(r) :
                 LET r2 == AfterPush(r, tok) IN
                 /\ run' = [run EXCEPT ![c] = r2]
                 /\ oracle' = OracleAfter(r, tok)
                 /\ fwdlog' = [fwdlog EXCEPT ![c] = Append(@, ForwardCall(r))]
                 /\ pc' = [pc EXCEPT ![c] =
                        IF IsStop(r.eos, tok) \/ ~LoopRuns(r2.i, r2.max_tokens)
                        THEN "g_final" ELSE "g_loop"]
                 /\ UNCHANGED <<cmd, res, emitted, delivery, raised, llm, lockHolder, poisoned,
                                loads, lastBatch>>
          ELSE /\ RunFails(c, o)
               /\ UNCHANGED <<cmd, emitted, delivery, llm, poisoned, loads, oracle, lastBatch>>

\* What LlmEngine::generate returns after the loop: the decoded suffix.
GenerateOutput(r) == Decode(GeneratedIds(r))

\* After the loop: decode tokens[prompt_len..] and return; the command returns
\* that text with strip_fake_user_prompts applied (res holds the engine's text).
GenerateFinish(c) ==
    /\ pc[c] = "g_final"
    /\ UNCHANGED <<rem, args, search>>
    /\ \E o \in {"ok", "Decode error"} :
          IF o = "ok"
          THEN /\ res' = [res EXCEPT ![c] = Some(Ok(GenerateOutput(run[c])))]
               /\ lastBatch' = Some([max_tokens |-> run[c].max_tokens,
                                     ids |-> GeneratedIds(run[c]),
                                     text |-> GenerateOutput(run[c])])
               /\ pc' = [pc EXCEPT ![c] = "returned"]
               /\ lockHolder' = Release(c)
               /\ DropRun(c)
               /\ UNCHANGED raised
          ELSE /\ RunFails(c, o)
               /\ UNCHANGED lastBatch
    /\ UNCHANGED <<cmd, emitted, delivery, llm, poisoned, loads, oracle>>

\* ----------------------------------------------- command generate_stream
\* TakesRemote with either of the two being enough.
TakesRemote_Either(url, model) == IsSome(url) \/ IsSome(model)

\* if let (Some(url), Some(model)) = (ollama_url, ollama_model)
TakesRemote(url, model) == IsSome(url) /\ IsSome(model)

StrLock(c) == pc[c] = "str_lock" /\ Lock(c, "str_load") /\ UNCHANGED <<rem, args, search>>

StrLoad(c) == pc[c] = "str_load" /\ LoadIfNone(c, "s_init") /\ UNCHANGED <<rem, args, search>>

StreamInit(c, inputs) ==
    pc[c] = "s_init" /\ RunInit(c, inputs, "s_loop", "s_done") /\ UNCHANGED <<rem, args, search>>

\* StreamChunk with >= for > and without the test for an empty chunk.
StreamChunk_NoGrowth(full_text, last_emitted_len) ==
    IF Len(full_text) >= last_emitted_len
    THEN <<SubSeq(full_text, last_emitted_len + 1, Len(full_text))>>
    ELSE <<>>

\* StreamChunk handing over the whole text instead of the part past the offset.
StreamChunk_Whole(full_text, last_emitted_len) ==
    IF Len(full_text) > last_emitted_len THEN <<full_text>> ELSE <<>>

\* The fragments one step hands to emit: full_text[last_emitted_len..] when the
\* text grew and the chunk is not empty.
StreamChunk(full_text, last_emitted_len) ==
    IF Len(full_text) > last_emitted_len
    THEN LET chunk == SubSeq(full_text, last_emitted_len + 1, Len(full_text))
         IN IF chunk # <<>> THEN <<chunk>> ELSE <<>>
    ELSE <<>>

\* NextEmittedLen of a loop that never moves the offset.
NextEmittedLen_Stale(full_text, last_emitted_len) == last_emitted_len

\* NextEmittedLen following the text also when it shrinks.
NextEmittedLen_Always(full_text, last_emitted_len) == Len(full_text)

\* last_emitted_len after the step.
NextEmittedLen(full_text, last_emitted_len) ==
    IF Len(full_text) > last_emitted_len THEN Len(full_text) ELSE last_emitted_len

\* &full_text[last_emitted_len..] panics when the offset is no char boundary.
SlicePanics(full_text, last_emitted_len) ==
    /\ Len(full_text) > last_emitted_len
    /\ ~IsCharBoundary(full_text, last_emitted_len)

\* The thread panics with the guard held: the mutex is released and poisoned.
Panic(c) ==
    /\ pc' = [pc EXCEPT ![c] = "panicked"]
    /\ poisoned' = (poisoned \/ lockHolder = c)
    /\ lockHolder' = Release(c)
    /\ DropRun(c)

\* What window.emit returns.
EmitResult(delivered) == IF delivered THEN "ok" ELSE "emit failed"

\* Discarded with the Result handed on instead of dropped.
Discarded_Propagated(result) == result

\* let _ = window.emit("chat-token", chunk): whatever emit returned is dropped.
Discarded(result) == "ok"

\* One iteration of the loop of LlmEngine::generate_stream.
StreamStep(c, inputs) ==
    /\ pc[c] = "s_loop"
    /\ UNCHANGED <<rem, args, search>>
    /\ LET r == run[c] IN
       \E o \in {"ok", "Decode error"} \cup StepErrors :
          IF o \in StepErrors
          THEN /\ RunFails(c, o)
               /\ UNCHANGED <<cmd, emitted, delivery, llm, poisoned, loads, oracle, lastBatch>>
          ELSE \E tok \in SampleSet(r) :
                 LET r2 == AfterPush(r, tok)
                     full_text == Decode(GeneratedIds(r2))
                 IN
                 /\ oracle' = OracleAfter(r, tok)
                 /\ IF o = "Decode error"
                    THEN /\ RunFails(c, o)
                         /\ UNCHANGED <<emitted, delivery, poisoned>>
                    ELSE IF SlicePanics(full_text, r.last_emitted_len)
                    THEN /\ Panic(c)
                         /\ UNCHANGED <<res, emitted, delivery, raised>>
                    ELSE LET chunks == StreamChunk(full_text, r.last_emitted_len) IN
                         \E d \in IF chunks = <<>> THEN {TRUE} ELSE inputs.deliveries :
                         /\ emitted' = [emitted EXCEPT ![c] = @ \o chunks]
                         /\ delivery' = [delivery EXCEPT ![c] =
                               @ \o [j \in 1..Len(chunks) |-> d]]
                         /\ IF Discarded(EmitResult(d)) # "ok"
                            THEN /\ RunFails(c, Discarded(EmitResult(d)))
                                 /\ UNCHANGED poisoned
                            ELSE /\ run' = [run EXCEPT ![c] =
                                       [r2 EXCEPT !.last_emitted_len =
                                           NextEmittedLen(full_text, r.last_emitted_len)]]
                                 /\ fwdlog' = [fwdlog EXCEPT ![c] =
                                       Append(@, ForwardCall(r))]
                                 /\ pc' = [pc EXCEPT ![c] =
                                       IF IsStop(r.eos, tok)
                                          \/ ~LoopRuns(r2.i, r2.max_tokens)
                                       THEN "s_done" ELSE "s_loop"]
                                 /\ UNCHANGED <<res, raised, lockHolder, poisoned>>
                 /\ UNCHANGED <<cmd, llm, loads, lastBatch>>

\* Ok(()) after the loop; the command returns it and drops the guard.
StreamReturn(c) ==
    /\ pc[c] = "s_done"
    /\ res' = [res EXCEPT ![c] = Some(Ok(<<>>))]
    /\ pc' = [pc EXCEPT ![c] = "returned"]
    /\ lockHolder' = Release(c)
    /\ DropRun(c)
    /\ UNCHANGED <<cmd, emitted, delivery, raised, llm, poisoned, loads, oracle, lastBatch, rem, args, search>>

\* ------------------------------------------------------- the remote path
Options == {None, Some("given")}

\* lib.rs: the test on (ollama_url, ollama_model); with both present the channel
\* is made and the worker thread spawned, otherwise the local path goes on.
StrRoute(c, urls, models) ==
    /\ pc[c] = "str_route"
    /\ \E url \in urls, model \in models :
          /\ args' = [args EXCEPT ![c].ollama_url = url, ![c].ollama_model = model]
          /\ IF TakesRemote(url, model)
             THEN /\ rem' = [rem EXCEPT ![c] = [NoRemote EXCEPT !.worker = "request"]]
                  /\ pc' = [pc EXCEPT ![c] = "rem_recv"]
             ELSE /\ pc' = [pc EXCEPT ![c] = "str_lock"]
                  /\ UNCHANGED rem
    /\ UNCHANGED <<cmd, run, res, emitted, delivery, fwdlog, raised, llm, lockHolder,
                   poisoned, loads, oracle, lastBatch, search>>

\* The text of the "response" field of the n-th line.
LineText(n) == Repeat(<<"x">>, n)

\* Sent of a channel that loses the message.
Sent_Lost(c, queue, msg) == queue

\* let _ = tx.send(msg): the message is queued unless the receiver is gone (the
\* command has returned); the Result of send is dropped.
Sent(c, queue, msg) == IF pc[c] = "rem_recv" THEN Append(queue, msg) ELSE queue

\* The worker returns from stream_generate: with Err(e) it sends Err(e); then
\* the thread ends and its senders are dropped.
WorkerEnds(c, result) ==
    rem' = [rem EXCEPT ![c].worker = "done",
                       ![c].result = Some(result),
                       ![c].queue = IF result.ok THEN @ ELSE Sent(c, @, result)]

RequestErrors == {"Ollama request failed", "Ollama error", "Ollama response read failed"}

\* ollama.rs: the POST, the status test and response.bytes(), which reads the
\* whole body (of nlines lines) before the first line is looked at.
WorkerRequest(c, inputs) ==
    /\ rem[c].worker = "request"
    /\ \E o \in {"ok"} \cup RequestErrors :
          IF o = "ok"
          THEN \E n \in inputs.bodies :
                  rem' = [rem EXCEPT ![c].worker = "lines", ![c].nlines = n]
          ELSE WorkerEnds(c, Err(o))
    /\ UNCHANGED <<pc, cmd, run, res, emitted, delivery, fwdlog, raised, llm, lockHolder,
                   poisoned, loads, oracle, lastBatch, args, search>>

\* A line of the body: empty, not UTF-8 or not JSON, or a chunk with its
\* optional "response" and "done" fields.
Responses == {"absent", "empty", "text"}
Dones == {"absent", "false", "true"}
SkippedLines ==
    {[kind |-> k, response |-> "absent", done |-> "absent"] :
        k \in {"empty", "not utf8", "not json"}}
Chunks == {[kind |-> "chunk", response |-> r, done |-> d] : r \in Responses, d \in Dones}
Lines == SkippedLines \cup Chunks

\* Forwards taking every present "response", the empty one too.
Forwards_Empty(line) == line.kind = "chunk" /\ line.response # "absent"

\* if let Some(ref s) = chunk.response { if !s.is_empty() { tx.send(Ok(..)) } }
Forwards(line) == line.kind = "chunk" /\ line.response = "text"

\* Breaks of a loop that reads on after "done".
Breaks_Never(line) == FALSE

\* if chunk.done == Some(true) { break; }
Breaks(line) == line.kind = "chunk" /\ line.done = "true"

\* The string of the "response" field of the n-th line.
ResponseOf(line, n) == IF line.response = "text" THEN LineText(n) ELSE <<>>

\* ollama.rs: one iteration of the loop over the lines, or its end.
WorkerLine(c, inputs) ==
    /\ rem[c].worker = "lines"
    /\ IF rem[c].lineno >= rem[c].nlines
       THEN WorkerEnds(c, Ok(<<>>))
       ELSE \E line \in inputs.lines :
               LET n == rem[c].lineno + 1
                   q == IF Forwards(line)
                        THEN Sent(c, rem[c].queue, Ok(ResponseOf(line, n)))
                        ELSE rem[c].queue
               IN rem' = [rem EXCEPT ![c].lineno = n,
                                     ![c].lines = Append(@, line),
                                     ![c].queue = q,
                                     ![c].worker = IF Breaks(line) THEN "done" ELSE @,
                                     ![c].result = IF Breaks(line) THEN Some(Ok(<<>>))
                                                   ELSE @]
    /\ UNCHANGED <<pc, cmd, run, res, emitted, delivery, fwdlog, raised, llm, lockHolder,
                   poisoned, loads, oracle, lastBatch, args, search>>

\* lib.rs: while let Ok(msg) = rx.recv(): a fragment is emitted, an error is
\* returned; recv fails once the queue is empty and every sender is dropped.
Recv(c, inputs) ==
    /\ pc[c] = "rem_recv"
    /\ IF rem[c].queue # <<>>
       THEN LET msg == Head(rem[c].queue) IN
            /\ rem' = [rem EXCEPT ![c].queue = Tail(@)]
            /\ IF msg.ok
               THEN \E d \in inputs.deliveries :
                    /\ emitted' = [emitted EXCEPT ![c] = Append(@, msg.text)]
                    /\ delivery' = [delivery EXCEPT ![c] = Append(@, d)]
                    /\ IF Discarded(EmitResult(d)) # "ok"
                       THEN /\ ReturnErr(c, Discarded(EmitResult(d)))
                            /\ raised' = [raised EXCEPT ![c] =
                                  Some(Discarded(EmitResult(d)))]
                       ELSE UNCHANGED <<pc, res, lockHolder, raised>>
               ELSE /\ ReturnErr(c, msg.err)
                    /\ raised' = [raised EXCEPT ![c] = Some(msg.err)]
                    /\ UNCHANGED <<emitted, delivery>>
       ELSE /\ rem[c].worker = "done"
            /\ pc' = [pc EXCEPT ![c] = "returned"]
            /\ res' = [res EXCEPT ![c] = Some(Ok(<<>>))]
            /\ UNCHANGED <<rem, emitted, delivery, lockHolder, raised>>
    /\ UNCHANGED <<cmd, run, fwdlog, llm, poisoned, loads, oracle, lastBatch, args, search>>

\* rag::search_events called with the arguments in search.
SearchStep ==
    /\ search.out = None
    /\ search' = [search EXCEPT !.out =
                     Some(SearchEvents(search.events, search.query, search.limit))]
    /\ UNCHANGED <<pc, cmd, run, res, emitted, delivery, fwdlog, raised, llm, lockHolder,
                   poisoned, loads, oracle, lastBatch, rem, args>>

\* ----------------------------------------------------------- specifications
\* The prompts (by the number of their ids), max_tokens and temperatures the
\* callers pass.
AppLines ==
    {[kind |-> "empty", response |-> "absent", done |-> "absent"],
     [kind |-> "chunk", response |-> "text", done |-> "absent"],
     [kind |-> "chunk", response |-> "text", done |-> "true"]}
AppInputs == [prompts |-> {<<"a">>}, events_paths |-> {None}, dates |-> {None},
              budgets |-> 0..AppMaxTokens, temperatures |-> {0},
              bodies |-> 0..MaxLines, lines |-> AppLines, deliveries |-> {TRUE}]
RunInputs == [prompts |-> {Repeat(<<"a">>, n) : n \in 1..MaxPromptLen},
              events_paths |-> {None}, dates |-> {None},
              budgets |-> 0..MaxTokens, temperatures |-> Temperatures,
              bodies |-> {0}, lines |-> {}, deliveries |-> {TRUE}]

\* The application: NumCalls invocations in flight, both commands, both paths.
Next ==
    \E c \in Calls :
        \/ Invoke(c, AppInputs)
        \/ GenLock(c)
        \/ GenLoad(c)
        \/ GenerateInit(c, AppInputs)
        \/ GenerateStep(c)
        \/ GenerateFinish(c)
        \/ StrRoute(c, Options, Options)
        \/ StrLock(c)
        \/ StrLoad(c)
        \/ StreamInit(c, AppInputs)
        \/ StreamStep(c, AppInputs)
        \/ StreamReturn(c)
        \/ WorkerRequest(c, AppInputs)
        \/ WorkerLine(c, AppInputs)
        \/ Recv(c, AppInputs)

Spec == Init /\ [][Next]_vars

\* The decode runs: one invocation after another on the local path, with
\* max_tokens up to MaxTokens.
NextRun ==
    \/ Invoke(1, RunInputs)
    \/ GenLock(1)
    \/ GenLoad(1)
    \/ GenerateInit(1, RunInputs)
    \/ GenerateStep(1)
    \/ GenerateFinish(1)
    \/ StrRoute(1, {None}, {None})
    \/ StrLock(1)
    \/ StrLoad(1)
    \/ StreamInit(1, RunInputs)
    \/ StreamStep(1, RunInputs)
    \/ StreamReturn(1)

SpecRun == Init /\ [][NextRun]_vars

\* One invocation after another on either path: the local path with max_tokens
\* large enough for a step to follow a step, and the remote path.
SeqInputs == [prompts |-> {<<"a">>}, events_paths |-> {None}, dates |-> {None},
              budgets |-> 0..(AppMaxTokens + 1), temperatures |-> {0},
              bodies |-> 0..MaxLines, lines |-> AppLines,
              deliveries |-> BOOLEAN]

NextSeq ==
    \/ Invoke(1, SeqInputs)
    \/ GenLock(1)
    \/ GenLoad(1)
    \/ GenerateInit(1, SeqInputs)
    \/ GenerateStep(1)
    \/ GenerateFinish(1)
    \/ StrRoute(1, Options, Options)
    \/ StrLock(1)
    \/ StrLoad(1)
    \/ StreamInit(1, SeqInputs)
    \/ StreamStep(1, SeqInputs)
    \/ StreamReturn(1)
    \/ WorkerRequest(1, SeqInputs)
    \/ WorkerLine(1, SeqInputs)
    \/ Recv(1, SeqInputs)

SpecSeq == Init /\ [][NextSeq]_vars

\* The same with the command's thread scheduled: a receive that can be made is
\* made.
FairSeq == SpecSeq /\ WF_vars(Recv(1, SeqInputs))

\* NumCalls invocations in flight on the local path, with max_tokens large
\* enough for a streaming call to emit more than one fragment.
LocalInputs == [prompts |-> {<<"a">>}, events_paths |-> {None}, dates |-> {None},
                budgets |-> {AppMaxTokens + 1}, temperatures |-> {0},
                bodies |-> {0}, lines |-> {}, deliveries |-> {TRUE}]

NextLocal ==
    \E c \in Calls :
        \/ Invoke(c, LocalInputs)
        \/ GenLock(c)
        \/ GenLoad(c)
        \/ GenerateInit(c, LocalInputs)
        \/ GenerateStep(c)
        \/ GenerateFinish(c)
        \/ StrRoute(c, {None}, {None})
        \/ StrLock(c)
        \/ StrLoad(c)
        \/ StreamInit(c, LocalInputs)
        \/ StreamStep(c, LocalInputs)
        \/ StreamReturn(c)

SpecLocal == Init /\ [][NextLocal]_vars

\* One invocation after another with every kind of line in the response body
\* of the remote path.
RemoteInputs == [prompts |-> {<<"a">>}, events_paths |-> {None}, dates |-> {None},
                 budgets |-> 0..AppMaxTokens, temperatures |-> {0},
                 bodies |-> 0..MaxLines, lines |-> Lines, deliveries |-> BOOLEAN]

NextRemote ==
    \/ Invoke(1, RemoteInputs)
    \/ GenLock(1)
    \/ GenLoad(1)
    \/ GenerateInit(1, RemoteInputs)
    \/ GenerateStep(1)
    \/ GenerateFinish(1)
    \/ StrRoute(1, Options, Options)
    \/ StrLock(1)
    \/ StrLoad(1)
    \/ StreamInit(1, RemoteInputs)
    \/ StreamStep(1, RemoteInputs)
    \/ StreamReturn(1)
    \/ WorkerRequest(1, RemoteInputs)
    \/ WorkerLine(1, RemoteInputs)
    \/ Recv(1, RemoteInputs)

SpecRemote == Init /\ [][NextRemote]_vars

\* One invocation after another on the local path, with and without an
\* events_path and a current_date.
Dates == {None, Some(<<"d">>)}
RagInputs == [prompts |-> {<<"a", "b">>},
              events_paths |-> {None} \cup {Some(path) : path \in EventsPaths},
              dates |-> Dates,
              budgets |-> 0..AppMaxTokens, temperatures |-> {0},
              bodies |-> {0}, lines |-> {}, deliveries |-> {TRUE}]

NextRag ==
    \/ Invoke(1, RagInputs)
    \/ GenLock(1)
    \/ GenLoad(1)
    \/ GenerateInit(1, RagInputs)
    \/ GenerateStep(1)
    \/ GenerateFinish(1)
    \/ StrRoute(1, {None}, {None})
    \/ StrLock(1)
    \/ StrLoad(1)
    \/ StreamInit(1, RagInputs)
    \/ StreamStep(1, RagInputs)
    \/ StreamReturn(1)

SpecRag == Init /\ [][NextRag]_vars

\* search_events on its own: every corpus of up to MaxEvents of the records
\* below, every query below and every limit up to MaxEvents.
MkEvent(title, description) == [title |-> title, date |-> <<>>, description |-> description]
SomeEvents ==
    {MkEvent(<<"a", "b">>, <<>>), MkEvent(<<"B", "a">>, <<"a", "b">>),
     MkEvent(<<"a">>, <<"b">>), MkEvent(<<"E">>, <<>>)}
SomeQueries ==
    {<<>>, <<" ", " ">>, <<"a">>, <<"E">>, <<"a", "b">>, <<"A", "B">>,
     <<"a", "b", " ", "b", "a">>, <<"b", "a", " ", "a", "b", " ", "a">>,
     <<"a", "b", " ", "a", "b">>, <<"b", " ", "E">>}

RECURSIVE SeqsUpTo(_, _)
SeqsUpTo(S, n) ==
    IF n = 0 THEN {<<>>}
    ELSE SeqsUpTo(S, n - 1) \cup
         {Append(q, x) : q \in {q \in SeqsUpTo(S, n - 1) : Len(q) = n - 1}, x \in S}

InitSearch ==
    /\ pc = [c \in Calls |-> "idle"]
    /\ cmd = [c \in Calls |-> "none"]
    /\ run = [c \in Calls |-> NoRun]
    /\ res = [c \in Calls |-> None]
    /\ emitted = [c \in Calls |-> <<>>]
    /\ delivery = [c \in Calls |-> <<>>]
    /\ fwdlog = [c \in Calls |-> <<>>]
    /\ raised = [c \in Calls |-> None]
    /\ llm = None
    /\ lockHolder = 0
    /\ poisoned = FALSE
    /\ loads = 0
    /\ oracle = [key |-> <<>>, toks |-> <<>>]
    /\ lastBatch = None
    /\ rem = [c \in Calls |-> NoRemote]
    /\ args = [c \in Calls |-> NoArgs]
    /\ search \in [events : SeqsUpTo(SomeEvents, MaxEvents), query : SomeQueries,
                    limit : 0..MaxEvents, out : {None}]

SpecSearch == InitSearch /\ [][SearchStep]_vars

\* ------------------------------------------------------------------ claims
\* The positions of a decode run: inside the loop, and between the loop and
\* the return of the engine.
LoopPcs == {"g_loop", "s_loop"}
RunPcs == {"g_loop", "g_final", "s_loop", "s_done"}
StreamPcs == {"s_loop", "s_done"}
InRun(c) == pc[c] \in RunPcs

\* The ids the resolved stop condition of a run names.
StopIds(r) == IF IsSome(r.eos) THEN Unwrap(r.eos).ids ELSE {}

\* The number of ids appended after the prompt boundary.
Appended(r) == Len(r.tokens) - r.prompt_len

RECURSIVE Concat(_)
Concat(frags) == IF frags = <<>> THEN <<>> ELSE Head(frags) \o Concat(Tail(frags))

IsPrefix(a, b) == Len(a) <= Len(b) /\ SubSeq(b, 1, Len(a)) = a

\* The decoded text of the first j generated ids.
TextAt(r, j) == Decode(SubSeq(GeneratedIds(r), 1, j))

\* C1 (step budget): a run with max_tokens = k has appended at most k ids after
\* prompt_len, made at most k forward calls and emitted at most k fragments, in
\* every state of the run and whatever the stop condition is; with k = 0 it has
\* made no forward call and has appended and emitted nothing.
C1_StepBudget ==
    \A c \in Calls :
        InRun(c) =>
            /\ Appended(run[c]) <= run[c].max_tokens
            /\ Appended(run[c]) = run[c].i
            /\ Len(fwdlog[c]) <= run[c].max_tokens
            /\ Len(emitted[c]) <= run[c].max_tokens
            /\ run[c].max_tokens = 0 =>
                  /\ fwdlog[c] = <<>>
                  /\ Appended(run[c]) = 0
                  /\ emitted[c] = <<>>

\* A run that has used its whole budget of at least two steps without a stop id.
C1_Witness ==
    \E c \in Calls :
        /\ pc[c] \in {"g_final", "s_done"}
        /\ run[c].max_tokens >= 2
        /\ Appended(run[c]) = run[c].max_tokens
        /\ \A j \in 1..Len(run[c].tokens) : run[c].tokens[j] \notin StopIds(run[c])

\* C2 (stop detection): in both loops a sampled id of the resolved stop
\* condition ends the loop: it is the last id of the sequence, no stop id lies
\* before the last generated id, and the run is not about to make another step.
C2_StopHalts ==
    \A c \in Calls :
        InRun(c) =>
            /\ \A j \in (run[c].prompt_len + 1)..(Len(run[c].tokens) - 1) :
                   run[c].tokens[j] \notin StopIds(run[c])
            /\ (/\ Appended(run[c]) > 0
                /\ run[c].tokens[Len(run[c].tokens)] \in StopIds(run[c]))
                   => pc[c] \notin LoopPcs

\* A run that a stop id of a stop-id set ended before its budget was used up.
C2_Witness ==
    \E c \in Calls :
        /\ pc[c] \in {"g_final", "s_done"}
        /\ IsSome(run[c].eos) /\ Unwrap(run[c].eos).kind = "Multiple"
        /\ Appended(run[c]) >= 2
        /\ Appended(run[c]) < run[c].max_tokens
        /\ run[c].tokens[Len(run[c].tokens)] \in StopIds(run[c])

RECURSIVE SumWindows(_)
SumWindows(log) == IF log = <<>> THEN 0 ELSE Head(log).n + SumWindows(Tail(log))

\* C3 (position): index_pos is 0 before the first step, equals the number of
\* tokens the forward calls of the run have folded into the cache, is the sum of
\* the lengths of the windows passed to forward so far, and after the first step
\* is the sequence length minus one.
C3_Position ==
    \A c \in Calls :
        InRun(c) =>
            /\ run[c].i = 0 => run[c].index_pos = 0
            /\ run[c].index_pos = Len(run[c].cache)
            /\ run[c].index_pos = SumWindows(fwdlog[c])
            /\ run[c].i > 0 => run[c].index_pos = Len(run[c].tokens) - 1

\* A run about to make its third step on a prompt of more than one id.
C3_Witness ==
    \E c \in Calls :
        /\ pc[c] \in LoopPcs
        /\ run[c].i = 2
        /\ run[c].prompt_len >= 2

\* Decoding is append-only stable over the run: every step's text has the text
\* of the step before as a prefix.
AppendStable(r) ==
    \A j \in 1..Appended(r) : IsPrefix(TextAt(r, j - 1), TextAt(r, j))

\* The streaming run that is over has, for its prompt, sampling mode, seed and
\* model, a batch run with the same max_tokens to compare with.
HasBatchTwin(c) ==
    /\ pc[c] = "s_done"
    /\ IsSome(lastBatch)
    /\ Unwrap(lastBatch).max_tokens = run[c].max_tokens

\* C4 (streaming equivalence): when generate_stream ends normally and generate
\* has returned a text for the same prompt, max_tokens, temperature, seed and
\* model, the concatenation of the emitted fragments is that text, provided the
\* decoding of the run was append-only stable.
C4_StreamEqualsBatch ==
    \A c \in Calls :
        (HasBatchTwin(c) /\ AppendStable(run[c]))
            => Concat(emitted[c]) = Unwrap(lastBatch).text

\* A stable streaming run of several fragments with a batch twin.
C4_Witness ==
    \E c \in Calls :
        /\ HasBatchTwin(c)
        /\ AppendStable(run[c])
        /\ Len(emitted[c]) >= 2

\* C5 (no empty fragment): no fragment handed to emit is empty.
C5_NoEmptyFragment ==
    \A c \in Calls : \A j \in 1..Len(emitted[c]) : emitted[c][j] # <<>>

\* A streaming run with a step that emitted and a later step whose token
\* decoded to no text.
C5_Witness ==
    \E c \in Calls :
        /\ pc[c] \in StreamPcs
        /\ emitted[c] # <<>>
        /\ Appended(run[c]) >= 2
        /\ TextAt(run[c], Appended(run[c])) = TextAt(run[c], Appended(run[c]) - 1)

\* The length of the longest decoded text of the run so far.
RECURSIVE MaxTextLen(_, _)
MaxTextLen(r, j) ==
    IF j = 0 THEN 0
    ELSE LET m == MaxTextLen(r, j - 1)
         IN IF Len(TextAt(r, j)) > m THEN Len(TextAt(r, j)) ELSE m

\* C6 as claimed: after every step of generate_stream last_emitted_len is the
\* length of that step's decoded text, also when that text is shorter than an
\* earlier step's.
C6_OffsetIsCurrentLength ==
    \A c \in Calls :
        pc[c] \in StreamPcs =>
            run[c].last_emitted_len = Len(TextAt(run[c], Appended(run[c])))

\* C6 as amended: after every step of generate_stream last_emitted_len is the
\* length of the longest decoded text any step of the run has had so far; it is
\* the length of the step's own text whenever that text is longer than every
\* earlier one, and is left as it was when the text is shorter.
C6_OffsetIsLongestLength ==
    \A c \in Calls :
        pc[c] \in StreamPcs =>
            run[c].last_emitted_len = MaxTextLen(run[c], Appended(run[c]))

\* A streaming run whose last step decoded to a text shorter than the offset.
C6_Witness ==
    \E c \in Calls :
        /\ pc[c] \in StreamPcs
        /\ Len(TextAt(run[c], Appended(run[c]))) < run[c].last_emitted_len

\* The positions at which a command is between taking the lock and the return
\* of engine.generate or engine.generate_stream.
LockedPcs == {"gen_load", "g_init", "g_loop", "g_final",
              "str_load", "s_init", "s_loop", "s_done"}

\* C7 (load once): llm::load succeeds at most once; a step that changes
\* AppState.llm or loads a model starts from an empty AppState.llm with no load
\* done, and once an engine is held it stays the same whatever is called.
C7_LoadOnce ==
    [][ /\ (llm' # llm \/ loads' # loads) =>
              (llm = None /\ loads = 0 /\ loads' = 1 /\ IsSome(llm'))
        /\ IsSome(llm) => (llm' = llm /\ \A c \in Calls : InRun(c)' =>
                              run'[c].eos = ResolveEos(Unwrap(llm))) ]_vars

\* One command has returned a text from the loaded engine and another is in a
\* decode run on it.
C7_Witness ==
    \E c, d \in Calls :
        /\ c # d
        /\ IsSome(res[c]) /\ Unwrap(res[c]).ok /\ cmd[c] = "generate"
        /\ pc[c] = "returned"
        /\ pc[d] \in LoopPcs
        /\ loads = 1

\* C8 (one decode run at a time): a command between lock acquisition and the
\* return of its engine call holds the lock, so at most one command is there.
C8_OneRunAtATime ==
    /\ \A c \in Calls : pc[c] \in LockedPcs => lockHolder = c
    /\ Cardinality({c \in Calls : pc[c] \in LockedPcs}) <= 1
    /\ lockHolder # 0 => pc[lockHolder] \in LockedPcs

\* A command waits for the lock while another is inside a decode step loop.
C8_Witness ==
    \E c, d \in Calls :
        /\ pc[c] \in LoopPcs
        /\ pc[d] \in {"gen_lock", "str_lock"}

\* C9 (errors are terminal): once a call has raised an error the call is over
\* with exactly that error as its result and no text, its run is dropped and
\* it holds no lock; and from then on nothing more is emitted or returned for it.
C9_ErrorsTerminal ==
    /\ [](\A c \in Calls :
            IsSome(raised[c]) =>
                /\ pc[c] = "returned"
                /\ res[c] = Some(Err(Unwrap(raised[c])))
                /\ run[c] = NoRun
                /\ lockHolder # c
                /\ \A j \in 1..Len(emitted[c]) : emitted[c][j] # <<Unwrap(raised[c])>>)
    /\ [][\A c \in Calls :
            (IsSome(raised[c]) /\ IsSome(raised'[c])) =>
                (emitted'[c] = emitted[c] /\ res'[c] = res[c] /\ fwdlog'[c] = fwdlog[c])]_vars

\* A streaming call that emitted a fragment before a later step failed.
C9_Witness ==
    \E c \in Calls :
        /\ cmd[c] = "generate_stream"
        /\ IsSome(raised[c])
        /\ emitted[c] # <<>>
        /\ rem[c] = NoRemote

\* The invocation was given both a remote endpoint and a model name.
BothGiven(c) == IsSome(args[c].ollama_url) /\ IsSome(args[c].ollama_model)

\* The invocation has taken a step of its own.
Moved(c) == pc'[c] # pc[c] \/ rem'[c] # rem[c] \/ emitted'[c] # emitted[c]

\* C10 (remote bypass): a generate_stream call given both an endpoint and a
\* model never holds the lock, is at no position of the local path, has no
\* decode run and made no forward call, and its steps leave AppState.llm, the
\* load count and the lock as they are; a call on which either is absent has no
\* worker, no request and no message of the remote path.
C10_RemoteBypass ==
    /\ [](\A c \in Calls :
            /\ BothGiven(c) =>
                  /\ lockHolder # c
                  /\ pc[c] \in {"rem_recv", "returned"}
                  /\ run[c] = NoRun
                  /\ fwdlog[c] = <<>>
            /\ ~BothGiven(c) => rem[c] = NoRemote)
    /\ [][\A c \in Calls :
            (BothGiven(c) /\ BothGiven(c)' /\ Moved(c)) =>
                (llm' = llm /\ loads' = loads /\ lockHolder' = lockHolder)]_vars

\* A remote call has delivered a fragment while no model is loaded and another
\* call, given only an endpoint, is on the local path waiting for the lock.
C10_Witness ==
    \E c, d \in Calls :
        /\ BothGiven(c) /\ emitted[c] # <<>> /\ llm = None
        /\ IsSome(args[d].ollama_url) /\ ~IsSome(args[d].ollama_model)
        /\ pc[d] = "str_lock"

\* The "response" strings of the Ok messages of a channel, in order.
RECURSIVE OkTexts(_)
OkTexts(q) ==
    IF q = <<>> THEN <<>>
    ELSE (IF Head(q).ok THEN <<Head(q).text>> ELSE <<>>) \o OkTexts(Tail(q))

\* A parseable line with "done": true.
IsDoneLine(line) == line.kind = "chunk" /\ line.done = "true"

\* The non-empty "response" values of the parseable lines among the first j
\* lines, in line order, up to and including the first line with "done": true.
RECURSIVE ResponsesUpToDone(_, _)
ResponsesUpToDone(lines, j) ==
    IF j = 0 THEN <<>>
    ELSE IF \E i \in 1..(j - 1) : IsDoneLine(lines[i])
         THEN ResponsesUpToDone(lines, j - 1)
         ELSE ResponsesUpToDone(lines, j - 1) \o
              (IF lines[j].kind = "chunk" /\ lines[j].response = "text"
               THEN <<LineText(j)>> ELSE <<>>)

\* The call returned Ok.
ReturnedOk(c) == pc[c] = "returned" /\ IsSome(res[c]) /\ Unwrap(res[c]).ok

\* C11 (remote line forwarding): on the remote path the fragments delivered and
\* those still in the channel are exactly the non-empty "response" values of
\* the parseable lines taken so far, in line order; no line after the first
\* line with "done": true is taken; and a call that returned Ok has delivered
\* all of them and has gone through the whole body or up to that line, so an
\* empty or unparseable line did not end the stream.
C11_RemoteFragments ==
    \A c \in Calls :
        rem[c].worker \in {"lines", "done"} =>
            LET lines == rem[c].lines IN
            /\ emitted[c] \o OkTexts(rem[c].queue) = ResponsesUpToDone(lines, Len(lines))
            /\ \A j \in 1..(Len(lines) - 1) : ~IsDoneLine(lines[j])
            /\ ReturnedOk(c) =>
                  /\ emitted[c] = ResponsesUpToDone(lines, Len(lines))
                  /\ \/ Len(lines) = rem[c].nlines
                     \/ Len(lines) > 0 /\ IsDoneLine(lines[Len(lines)])

\* A remote call returned Ok after a line with a response and "done": true,
\* whose fragment it delivered, with a line of the body behind it never taken.
C11_Witness ==
    \E c \in Calls :
        /\ ReturnedOk(c)
        /\ rem[c].lines # <<>>
        /\ IsDoneLine(rem[c].lines[Len(rem[c].lines)])
        /\ Len(rem[c].lines) < rem[c].nlines
        /\ emitted[c] # <<>>

\* A remote call returned Ok with the fragment of a line that came after an
\* empty or unparseable line.
C11_WitnessSkipped ==
    \E c \in Calls :
        /\ ReturnedOk(c)
        /\ Len(rem[c].lines) = 2
        /\ rem[c].lines[1] \in SkippedLines
        /\ emitted[c] = <<LineText(2)>>

\* The step handed a fragment of call c to window.emit and emit failed.
DeliveryFailed(c) ==
    /\ Len(delivery'[c]) = Len(delivery[c]) + 1
    /\ ~delivery'[c][Len(delivery'[c])]

\* C12 (delivery is fire-and-forget): a step whose fragment could not be
\* delivered leaves the call where a delivered fragment leaves it: no error is
\* raised and nothing returned; the decode loop has pushed its token, moved its
\* offset to the end of the text and goes on to the next iteration or to the
\* normal end; the receiver loop has taken the message and goes on receiving;
\* and no call ever ends with a delivery error.
C12_DeliveryNeverAborts ==
    /\ [](\A c \in Calls :
            /\ Len(delivery[c]) = Len(emitted[c])
            /\ IsSome(raised[c]) => Unwrap(raised[c]) # "emit failed"
            /\ (IsSome(res[c]) /\ ~Unwrap(res[c]).ok) => Unwrap(res[c]).err # "emit failed")
    /\ [][\A c \in Calls :
            DeliveryFailed(c) =>
                /\ raised'[c] = None /\ res'[c] = None
                /\ emitted'[c] # emitted[c]
                /\ IF rem[c] = NoRemote
                   THEN /\ pc'[c] = IF LoopRuns(run'[c].i, run'[c].max_tokens)
                                       /\ ~IsStop(run'[c].eos,
                                                  run'[c].tokens[Len(run'[c].tokens)])
                                    THEN "s_loop" ELSE "s_done"
                        /\ run'[c].i = run[c].i + 1
                        /\ Len(run'[c].tokens) = Len(run[c].tokens) + 1
                        /\ run'[c].last_emitted_len = Len(Decode(GeneratedIds(run'[c])))
                        /\ lockHolder' = c
                   ELSE /\ pc'[c] = "rem_recv"
                        /\ rem'[c].queue = Tail(rem[c].queue)]_vars

\* A local streaming call returned Ok although the delivery of its first
\* fragment failed: the loop went on and delivered a second one.
C12_Witness ==
    \E c \in Calls :
        /\ ReturnedOk(c)
        /\ cmd[c] = "generate_stream" /\ rem[c] = NoRemote
        /\ delivery[c] = <<FALSE, TRUE>>

\* A remote call returned Ok although the delivery of its first fragment
\* failed: the receiver went on and delivered a second one.
C12_WitnessRemote ==
    \E c \in Calls :
        /\ ReturnedOk(c)
        /\ rem[c] # NoRemote
        /\ delivery[c] = <<FALSE, TRUE>>

\* The generate run has, for its prompt, temperature, seed and model, an
\* earlier generate run with the same max_tokens to compare with.
HasEarlierRun(c) ==
    /\ pc[c] \in {"g_loop", "g_final"}
    /\ IsSome(lastBatch)
    /\ Unwrap(lastBatch).max_tokens = run[c].max_tokens

\* C13 (determinism): a generate run with the seed, prompt, max_tokens,
\* temperature and model of an earlier generate run produces the earlier run's
\* tokens step for step and, at the end of its loop, all of them and the same
\* output string; and in every run the sampler has the seed it was created
\* with and has drawn exactly the run's own samples.
C13_Deterministic ==
    \A c \in Calls :
        /\ pc[c] \in RunPcs =>
              run[c].sampler = [seed |-> Seed, draws |-> Appended(run[c])]
        /\ HasEarlierRun(c) =>
              /\ IsPrefix(GeneratedIds(run[c]), Unwrap(lastBatch).ids)
              /\ pc[c] = "g_final" =>
                    /\ GeneratedIds(run[c]) = Unwrap(lastBatch).ids
                    /\ GenerateOutput(run[c]) = Unwrap(lastBatch).text

\* A second generate run with sampling temperature > 0 has reproduced the two
\* tokens of the earlier run.
C13_Witness ==
    \E c \in Calls :
        /\ HasEarlierRun(c) /\ pc[c] = "g_final"
        /\ run[c].key[2] = "All"
        /\ Appended(run[c]) >= 2

\* The lower-cased words of a query, and whether one of them is longer than 1.
WordsOf(query) == SplitWhitespace(ToLowercase(query))
HasLongWord(query) == \E i \in 1..Len(WordsOf(query)) : StrLen(WordsOf(query)[i]) > 1

\* The score of a record for a query: the number of the query's words longer
\* than 1 that its lower-cased title and description contain.
Score(event, query) ==
    Cardinality({i \in 1..Len(WordsOf(query)) :
                    /\ StrLen(WordsOf(query)[i]) > 1
                    /\ Contains(ToLowercase(event.title \o <<" ">> \o event.description),
                                WordsOf(query)[i])})

\* C14 (retrieval): search_events returns at most limit records of the corpus,
\* none of them twice; for a query with a word longer than 1 every returned
\* record has score > 0, the scores do not increase along the result, records
\* of equal score are in corpus order and no record left out has a higher
\* score than a returned one; for any other query the result is the first
\* limit records in corpus order.
C14_SearchEvents ==
    IsSome(search.out) =>
        LET R == search.events
            Q == search.query
            out == Unwrap(search.out)
        IN
        /\ Len(out) <= search.limit
        /\ \A j \in 1..Len(out) : out[j] \in 1..Len(R)
        /\ \A j, k \in 1..Len(out) : j # k => out[j] # out[k]
        /\ IF HasLongWord(Q)
           THEN /\ \A j \in 1..Len(out) : Score(R[out[j]], Q) > 0
                /\ \A j, k \in 1..Len(out) :
                      j < k =>
                        /\ Score(R[out[j]], Q) >= Score(R[out[k]], Q)
                        /\ Score(R[out[j]], Q) = Score(R[out[k]], Q) => out[j] < out[k]
                /\ \A i \in 1..Len(R), j \in 1..Len(out) :
                      (\A k \in 1..Len(out) : out[k] # i) =>
                          Score(R[i], Q) <= Score(R[out[j]], Q)
           ELSE out = [j \in 1..(IF search.limit < Len(R) THEN search.limit ELSE Len(R)) |-> j]

\* search_events has returned two records out of corpus order, the one of the
\* higher score first, and left out a record of score > 0 because of the limit.
C14_Witness ==
    /\ IsSome(search.out)
    /\ HasLongWord(search.query)
    /\ LET out == Unwrap(search.out) IN
       /\ Len(out) = 2 /\ search.limit = 2
       /\ out[1] > out[2]
       /\ \E i \in 1..Len(search.events) :
             /\ i \notin {out[1], out[2]}
             /\ Score(search.events[i], search.query) > 0

\* search_events has returned the first limit records for a query whose only
\* word has one byte.
C14_WitnessNoWords ==
    /\ IsSome(search.out)
    /\ search.query = <<"a">>
    /\ search.limit = 2 /\ Len(search.events) = 3
    /\ Unwrap(search.out) = <<1, 2>>

\* The errors of rag::load_events.
RetrievalErrors == {"Failed to read events file", "Invalid events JSON"}

\* The call was given an events_path whose file is missing, unreadable or
\* malformed.
RetrievalFails(c) ==
    /\ IsSome(args[c].events_path)
    /\ Unwrap(args[c].events_path) \in {"missing.json", "unreadable.json", "malformed.json"}

\* C15 (retrieval failure is not fatal): a command given an events_path whose
\* file is missing, unreadable or malformed has built the prompt it builds
\* from the same prompt and date without an events_path, never returns a
\* retrieval error, and its decode run is the run of that prompt.
C15_RetrievalNonFatal ==
    \A c \in Calls :
        (cmd[c] # "none" /\ RetrievalFails(c)) =>
            LET plain == BuildPromptWithRag(args[c].prompt, None, args[c].current_date) IN
            /\ args[c].prompt_to_use = plain
            /\ (IsSome(res[c]) /\ ~Unwrap(res[c]).ok) =>
                  Unwrap(res[c]).err \notin RetrievalErrors
            /\ pc[c] \in RunPcs =>
                  /\ run[c].key[1] = plain
                  /\ SubSeq(run[c].tokens, 1, run[c].prompt_len) = Encode(plain)

\* A streaming call given a date and the path of a malformed events file has
\* run a decode step and emitted a fragment.
C15_Witness ==
    \E c \in Calls :
        /\ args[c].events_path = Some("malformed.json")
        /\ IsSome(args[c].current_date)
        /\ pc[c] \in RunPcs
        /\ emitted[c] # <<>>

\* A call given the path of a good events file runs with the events in its
\* prompt.
C15_WitnessAugmented ==
    \E c \in Calls :
        /\ args[c].events_path = Some("events.json")
        /\ pc[c] \in RunPcs
        /\ args[c].prompt_to_use # BuildPromptWithRag(args[c].prompt, None, args[c].current_date)
        /\ Contains(args[c].prompt_to_use, <<"- ", "a", "b", " (", "d", ") ">>)

\* The inputs of the first j forward calls, one after the other.
RECURSIVE InputsUpTo(_, _)
InputsUpTo(log, j) == IF j = 0 THEN <<>> ELSE InputsUpTo(log, j - 1) \o log[j].input

\* C16 (forward window): in a decode run the first forward call is given the
\* whole prompt at position 0 and the j-th call, j > 1, the one token appended
\* by step j - 1 at the position that is the number of tokens given to forward
\* before; there is one call per step, and the inputs of the calls, in order,
\* are the sequence without its last token: no token twice, none skipped.
C16_ForwardWindow ==
    \A c \in Calls :
        pc[c] \in RunPcs =>
            LET r == run[c]
                log == fwdlog[c]
            IN
            /\ r.use_kv_cache
            /\ Len(log) = Appended(r)
            /\ \A j \in 1..Len(log) :
                  IF j = 1
                  THEN /\ log[j].input = SubSeq(r.tokens, 1, r.prompt_len)
                       /\ log[j].pos = 0
                  ELSE /\ log[j].input = <<r.tokens[r.prompt_len + j - 1]>>
                       /\ log[j].pos = Len(InputsUpTo(log, j - 1))
                       /\ log[j].pos = r.prompt_len + j - 2
            /\ Len(log) > 0 =>
                  InputsUpTo(log, Len(log)) = SubSeq(r.tokens, 1, Len(r.tokens) - 1)

\* A run on a prompt of several ids has made three forward calls.
C16_Witness ==
    \E c \in Calls :
        /\ pc[c] \in RunPcs
        /\ run[c].prompt_len >= 3
        /\ Len(fwdlog[c]) = 3

\* No id the run has sampled is in its resolved stop set.
NoStopSampled(r) ==
    \A j \in (r.prompt_len + 1)..Len(r.tokens) : r.tokens[j] \notin StopIds(r)

\* The loop of the run is over without an error or a panic.
LoopOver(c) == pc[c] \in {"g_final", "s_done"}

\* C17 (exhausted budget): a run whose loop is over, no step of which failed
\* and which sampled no id of its resolved stop set (none at all when no stop
\* id is resolved) has made exactly max_tokens steps; and when it then returns
\* without an error, generate returns Ok with the decoded text of those
\* max_tokens ids and generate_stream returns Ok(()).
C17_Exhausted ==
    /\ [](\A c \in Calls :
            (LoopOver(c) /\ NoStopSampled(run[c])) =>
                /\ Appended(run[c]) = run[c].max_tokens
                /\ Len(fwdlog[c]) = run[c].max_tokens
                /\ ~IsSome(raised[c]))
    /\ [][\A c \in Calls :
            (LoopOver(c) /\ NoStopSampled(run[c]) /\ pc'[c] # pc[c] /\ ~IsSome(raised'[c])) =>
                /\ pc'[c] = "returned"
                /\ IsSome(res'[c]) /\ Unwrap(res'[c]).ok
                /\ Unwrap(res'[c]).text =
                      IF cmd[c] = "generate"
                      THEN Decode(SubSeq(run[c].tokens,
                                         Len(run[c].tokens) - run[c].max_tokens + 1,
                                         Len(run[c].tokens)))
                      ELSE <<>>]_vars

\* The loop of a run for which no stop id could be resolved is over after
\* max_tokens >= 2 steps, one of which sampled the end marker.
C17_Witness ==
    \E c \in Calls :
        /\ LoopOver(c)
        /\ run[c].eos = None
        /\ run[c].max_tokens >= 2
        /\ Appended(run[c]) = run[c].max_tokens
        /\ \E j \in (run[c].prompt_len + 1)..Len(run[c].tokens) : run[c].tokens[j] = EOS_TOKEN

\* The decoded text of all the ids the run has generated.
FullText(r) == Decode(GeneratedIds(r))

\* C18 (no re-emission): in generate_stream the offset never decreases, also
\* when the decoded text changes or shrinks; a step emits at most one fragment
\* and that fragment is the part of the step's decoded text from the previous
\* offset to its end; and the lengths of the fragments emitted so far add up
\* to the offset.
C18_NoReEmission ==
    /\ [](\A c \in Calls :
            pc[c] \in StreamPcs => Len(Concat(emitted[c])) = run[c].last_emitted_len)
    /\ [][\A c \in Calls :
            (pc[c] = "s_loop" /\ pc'[c] \in StreamPcs) =>
                /\ run'[c].last_emitted_len >= run[c].last_emitted_len
                /\ \/ emitted'[c] = emitted[c]
                   \/ emitted'[c] =
                        Append(emitted[c],
                               SubSeq(FullText(run'[c]), run[c].last_emitted_len + 1,
                                      Len(FullText(run'[c]))))]_vars

\* A streaming run emitted a fragment, then its decoded text shrank, then it
\* grew past the offset and the run emitted the part behind the offset.
C18_Witness ==
    \E c \in Calls :
        /\ pc[c] \in StreamPcs
        /\ Len(emitted[c]) = 2
        /\ \E j \in 1..Appended(run[c]) :
              Len(TextAt(run[c], j)) < Len(TextAt(run[c], j - 1))

\* The call is on the remote path and its worker has returned from
\* stream_generate.
WorkerFinished(c) == rem[c] # NoRemote /\ IsSome(rem[c].result)

\* C19 (the remote path ends): an error message in the channel is its last
\* message and is there only once the worker has finished; a command that has
\* returned on the remote path has returned what stream_generate returned, Ok
\* only if the worker sent no error, after delivering every fragment the worker
\* sent and leaving nothing in the channel; and once the worker has finished
\* the command eventually returns.
C19_RemoteReturns ==
    /\ [](\A c \in Calls :
            /\ \A j \in 1..Len(rem[c].queue) :
                  ~rem[c].queue[j].ok => (j = Len(rem[c].queue) /\ WorkerFinished(c))
            /\ (rem[c] # NoRemote /\ pc[c] = "returned") =>
                  /\ WorkerFinished(c)
                  /\ res[c] = rem[c].result
                  /\ rem[c].queue = <<>>
                  /\ emitted[c] = ResponsesUpToDone(rem[c].lines, Len(rem[c].lines)))
    /\ \A c \in Calls :
          (WorkerFinished(c) /\ pc[c] = "rem_recv") ~> (pc[c] = "returned")

\* The worker has finished with fragments still in the channel and the
\* command still receiving.
C19_Witness ==
    \E c \in Calls :
        /\ WorkerFinished(c)
        /\ pc[c] = "rem_recv"
        /\ Len(rem[c].queue) = 2
        /\ rem[c].queue[1].ok /\ rem[c].queue[2].ok

\* A remote command has returned the error of a request that failed.
C19_WitnessError ==
    \E c \in Calls :
        /\ rem[c] # NoRemote /\ pc[c] = "returned"
        /\ ~Unwrap(res[c]).ok

\* The invocation is a generate_stream command on the local path.
LocalStream(c) == cmd[c] = "generate_stream" /\ rem[c] = NoRemote

\* The invocation is over: its command returned or its thread panicked.
Over(c) == pc[c] \in {"returned", "panicked"}

\* The invocation has not yet asked for the lock or is waiting for it.
BeforeLock(c) == pc[c] \in {"idle", "str_route", "str_lock"}

\* C20 (local streams are not interleaved): a local streaming call with a
\* fragment out and not yet over holds the lock; and in the step in which a
\* local streaming call emits a fragment it holds the lock, no other call emits,
\* and every other local streaming call is either over, with all its fragments
\* out before this one, or has not acquired the lock and has emitted nothing.
C20_NoInterleaving ==
    /\ [](\A c \in Calls :
            (LocalStream(c) /\ emitted[c] # <<>> /\ ~Over(c)) => lockHolder = c)
    /\ [][\A c \in Calls :
            (LocalStream(c) /\ Len(emitted'[c]) > Len(emitted[c])) =>
                /\ lockHolder = c
                /\ \A d \in Calls \ {c} :
                      /\ emitted'[d] = emitted[d]
                      /\ LocalStream(d) =>
                            \/ Over(d)
                            \/ BeforeLock(d) /\ emitted[d] = <<>>]_vars

\* A local streaming call holds the lock with two fragments out after another
\* local streaming call, which emitted two fragments, is over.
C20_Witness ==
    \E c, d \in Calls :
        /\ c # d
        /\ LocalStream(c) /\ LocalStream(d)
        /\ Len(emitted[c]) >= 2 /\ ~Over(c) /\ lockHolder = c
        /\ Len(emitted[d]) >= 2 /\ Over(d)

\* A local streaming call has emitted a fragment and is still in its loop while
\* another local streaming call waits for the lock.
C20_WitnessWaiting ==
    \E c, d \in Calls :
        /\ LocalStream(c) /\ LocalStream(d)
        /\ emitted[c] # <<>> /\ pc[c] = "s_loop"
        /\ pc[d] = "str_lock" /\ emitted[d] = <<>>

\* The positions at which a command tests and fills AppState.llm.
LoadPcs == {"gen_load", "str_load"}

\* In this step the invocation's command returns Err.
ReturnsErr(c) ==
    /\ ~Over(c)
    /\ pc'[c] = "returned"
    /\ IsSome(res'[c]) /\ ~Unwrap(res'[c]).ok

\* In this step the invocation's thread panics.
Panics(c) == ~Over(c) /\ pc'[c] = "panicked"

\* What a failing step of an invocation leaves behind: the lock is not held by
\* it and is as usable as before, AppState.llm and the number of loads are as
\* before, and a failure of the load itself leaves AppState.llm empty with no
\* decode step made and no fragment out.
LeftConsistent(c) ==
    /\ lockHolder' # c
    /\ poisoned' = poisoned
    /\ llm' = llm
    /\ loads' = loads
    /\ pc[c] \in LoadPcs =>
          /\ llm' = None
          /\ run[c] = NoRun /\ fwdlog[c] = <<>> /\ emitted[c] = <<>>

\* A command that gets past the load position loads exactly when AppState.llm
\* is empty, and otherwise goes on with the engine that is there.
LoadsWhenEmpty(c) ==
    (pc[c] \in LoadPcs /\ pc'[c] \notin LoadPcs /\ pc'[c] # "returned") =>
        IF llm = None
        THEN llm' # None /\ loads' = loads + 1
        ELSE llm' = llm /\ loads' = loads

\* C21 (a failing call leaves the session state consistent): whenever a call
\* fails, by returning an error or by a panic of its thread, the lock is
\* released and usable by the next call, a failed load leaves AppState.llm
\* empty with no decode step made, a failed decode run leaves the engine
\* loaded, and the next call loads exactly when AppState.llm is empty.
C21_FailureKeepsState ==
    [][\A c \in Calls :
          /\ (ReturnsErr(c) \/ Panics(c)) => LeftConsistent(c)
          /\ LoadsWhenEmpty(c)]_vars

\* The same for the calls that fail by returning an error only.
C21_ErrKeepsState ==
    [][\A c \in Calls :
          /\ ReturnsErr(c) => LeftConsistent(c)
          /\ LoadsWhenEmpty(c)]_vars

\* After a streaming call panicked in its decode run, the engine is loaded and
\* the next call was refused at the lock.
C21_Witness ==
    \E c \in Calls :
        /\ poisoned
        /\ IsSome(llm)
        /\ pc[c] = "returned"
        /\ res[c] = Some(Err("poisoned lock: another task failed inside"))

\* After a call whose decode run returned an error, another call has taken the
\* lock and stands before the test of AppState.llm with the engine still there.
C21_WitnessReuse ==
    \E c, d \in Calls :
        /\ c # d
        /\ IsSome(raised[d]) /\ Over(d)
        /\ pc[c] \in LoadPcs /\ lockHolder = c
        /\ IsSome(llm) /\ loads = 1 /\ ~poisoned

====
